---- MODULE Spec2Model ----
(***************************************************************************)
(* TEMPT Token API server (src/server.js): the four JSON-file collections  *)
(* (subscribers, migration registrations, pageviews, waitlist members) and *)
(* the HTTP handlers that load, mutate and persist them.                   *)
(*                                                                         *)
(* A JavaScript string is a sequence of one-character strings, so that     *)
(* trim, toLowerCase, toUpperCase, substring and the validators' regular   *)
(* expressions are computed and not assumed.  undefined and null are the   *)
(* one-element sequences <<"undefined">> and <<"null">>, which no string   *)
(* of characters equals.  A timestamp (new Date().toISOString()) is the    *)
(* reading of a clock that never runs backwards.                           *)
(***************************************************************************)
EXTENDS Integers, Sequences, FiniteSets, Bags, TLC

\* ---------------------------------------------------------------- bounds

\* Requests that may be in flight at once.
MaxReqs == 2
\* The clock reads 0..MaxClock.
MaxClock == 1
\* Pageview events the model lets the analytics file grow to.
MaxViews == 2
\* Members of the waitlist files the ranking is computed from.
MaxMembers == 4

\* ------------------------------------------------------- JavaScript values

Undefined == <<"undefined">>
Null == <<"null">>

\* The values the handlers meet that JavaScript treats as false.
Falsy(v) == v \in {Undefined, Null, <<>>}

\* a || b
Or(a, b) == IF Falsy(a) THEN b ELSE a

Min(a, b) == IF a < b THEN a ELSE b

UpperLetters ==
  <<"A","B","C","D","E","F","G","H","I","J","K","L","M",
    "N","O","P","Q","R","S","T","U","V","W","X","Y","Z">>

LowerLetters ==
  <<"a","b","c","d","e","f","g","h","i","j","k","l","m",
    "n","o","p","q","r","s","t","u","v","w","x","y","z">>

Digits == {"0","1","2","3","4","5","6","7","8","9"}

Range(s) == {s[i] : i \in 1..Len(s)}

IsSpace(c) == c \in {" ", "\t", "\n", "\r"}

LowerOf == [c \in Range(UpperLetters) |->
              LowerLetters[CHOOSE i \in 1..26 : UpperLetters[i] = c]]

UpperOf == [c \in Range(LowerLetters) |->
              UpperLetters[CHOOSE i \in 1..26 : LowerLetters[i] = c]]

LowerChar(c) == IF c \in DOMAIN LowerOf THEN LowerOf[c] ELSE c

UpperChar(c) == IF c \in DOMAIN UpperOf THEN UpperOf[c] ELSE c

\* String.prototype.toLowerCase / toUpperCase
toLowerCase(s) == [i \in 1..Len(s) |-> LowerChar(s[i])]

toUpperCase(s) == [i \in 1..Len(s) |-> UpperChar(s[i])]

RECURSIVE trimStart(_)
trimStart(s) ==
  IF s = <<>> \/ ~IsSpace(Head(s)) THEN s ELSE trimStart(Tail(s))

RECURSIVE trimEnd(_)
trimEnd(s) ==
  IF s = <<>> \/ ~IsSpace(s[Len(s)]) THEN s ELSE trimEnd(SubSeq(s, 1, Len(s) - 1))

\* String.prototype.trim
trim(s) == trimEnd(trimStart(s))

\* s.substring(0, n)
substring(s, n) == SubSeq(s, 1, Min(n, Len(s)))

\* n copies of the character c
Rep(c, n) == [i \in 1..n |-> c]

\* ------------------------------------------------------------- validators

\* /^[^\s@]+@[^\s@]+\.[^\s@]+$/ : no white space, exactly one "@" with
\* something before it, and after it a "." with something on both sides.
isValidEmail(email) ==
  /\ \A i \in 1..Len(email) : ~IsSpace(email[i])
  /\ Cardinality({i \in 1..Len(email) : email[i] = "@"}) = 1
  /\ \E p \in 2..Len(email) :
       /\ email[p] = "@"
       /\ \E q \in (p + 2)..(Len(email) - 1) : email[q] = "."

HexChars == Digits \cup {"a","b","c","d","e","f","A","B","C","D","E","F"}

\* /^0x[0-9a-fA-F]{40}$/
isValidEth(addr) ==
  /\ Len(addr) = 42
  /\ addr[1] = "0"
  /\ addr[2] = "x"
  /\ \A i \in 3..42 : addr[i] \in HexChars

\* [1-9A-HJ-NP-Za-km-z]
Base58Chars ==
  ((Digits \cup Range(UpperLetters) \cup Range(LowerLetters))
     \ {"0", "I", "O", "l"})

\* /^[1-9A-HJ-NP-Za-km-z]{32,44}$/
isValidSol(addr) ==
  /\ Len(addr) >= 32
  /\ Len(addr) <= 44
  /\ \A i \in 1..Len(addr) : addr[i] \in Base58Chars

\* ------------------------------------------------------------------ crypto

HexDigits == <<"0","1","2","3","4","5","6","7","8","9","a","b","c","d","e","f">>

\* The byte strings crypto.randomBytes(n) is let to return.
randomBytes(n) == {Rep(171, n), Rep(18, n)}

\* Buffer.prototype.toString('hex')
toHex(bytes) ==
  [i \in 1..(2 * Len(bytes)) |->
     IF i % 2 = 1
     THEN HexDigits[(bytes[(i + 1) \div 2] \div 16) + 1]
     ELSE HexDigits[(bytes[i \div 2] % 16) + 1]]

\* decodeURIComponent: %40, %20 and %2E decode to "@", " " and "."; a "%" that
\* starts no escape is a URIError, <<"URIError">> here.
URIError == <<"URIError">>

PercentCode(a, b) ==
  IF a = "4" /\ b = "0" THEN "@"
  ELSE IF a = "2" /\ b = "0" THEN " "
  ELSE IF a = "2" /\ b \in {"E", "e"} THEN "."
  ELSE "%"

RECURSIVE decodeURIComponent(_)
decodeURIComponent(s) ==
  IF s = <<>> THEN <<>>
  ELSE IF Head(s) # "%"
    THEN LET rest == decodeURIComponent(Tail(s))
         IN IF rest = URIError THEN URIError ELSE <<Head(s)>> \o rest
  ELSE IF Len(s) < 3 \/ PercentCode(s[2], s[3]) = "%" THEN URIError
  ELSE LET rest == decodeURIComponent(SubSeq(s, 4, Len(s)))
       IN IF rest = URIError THEN URIError
          ELSE <<PercentCode(s[2], s[3])>> \o rest

\* ------------------------------------------------------------------ inputs

EmailA == <<"a","@","b",".","c">>
\* trims and lowercases to EmailA
EmailAMixed == <<" ","A","@","B",".","c"," ">>
EmailX == <<"x","@","b",".","c">>
EmailY == <<"y","@","b",".","c">>
\* no "." after the "@"
EmailBad == <<"a","@","b">>

NameN == <<" ","N","e","o">>
SourceAd == <<"a","d"," ">>
Website == <<"w","e","b","s","i","t","e">>

\* const ADMIN_KEY = process.env.TEMPT_ADMIN_KEY || 'tempt-admin-2026'
ADMIN_KEY == <<"t","e","m","p","t","-","a","d","m","i","n","-","2","0","2","6">>
WrongKey == <<"t","e","m","p","t">>

\* What a request carries beside its body: the x-forwarded-for header and the
\* socket's address (getIP), the x-admin-key header and the ?key= parameter.
Loopback == <<"1","2","7",".","0",".","0",".","1">>

PublicReqs ==
  {[xff |-> Undefined, remote |-> Loopback, key |-> Undefined, query |-> Null]}

\* No key at all, a wrong header, the right header and the right parameter.
AdminReqs ==
  {[xff |-> Undefined, remote |-> Loopback, key |-> k[1], query |-> k[2]] :
     k \in {<<Undefined, Null>>, <<WrongKey, Null>>, <<ADMIN_KEY, Null>>,
            <<Undefined, ADMIN_KEY>>}}

\* The requests that write (DELETE, PATCH) give their key in the header.
AdminWriteReqs == {req \in AdminReqs : req.query = Null}

\* ------------------------------------------------------------------- state

FileNames == {"subscribers", "migrations", "analytics", "waitlist"}

VARIABLES
  disk,      \* file name -> [readable, rows]: the JSON file's array, or unreadable
  inflight,  \* the bag of requests whose handler has started and not returned
  running,   \* whether a handler's synchronous code holds the thread
  last,      \* the response the step just taken wrote, with what was asked
  now,       \* the last reading of the clock
  scope      \* the collection whose service this behaviour exercises

vars == <<disk, inflight, running, last, now, scope>>

NoArgs == [none |-> TRUE]
NoData == [present |-> FALSE, rows |-> <<>>]

\* The fields a response body may carry; keys names those it does carry.
NoBody ==
  [keys |-> {}, success |-> FALSE, message |-> "", duplicate |-> FALSE,
   position |-> -1, refCode |-> Null, referrals |-> -1, total |-> -1,
   count |-> -1, totalReferrals |-> -1, pending |-> -1, verified |-> -1, airdropped |-> -1,
   rows |-> <<>>, allTime |-> -1, sources |-> {}, devices |-> {},
   dailyTrend |-> <<>>, counts |-> <<>>]

NoResponse == [route |-> "none", args |-> NoArgs, status |-> 0, body |-> NoBody]

\* Lines 23-27: every file exists and holds an empty array.  Every handler reads
\* and writes the file of its own service only, so a behaviour exercises one
\* service, chosen here.
Init ==
  /\ disk = [f \in FileNames |-> [readable |-> TRUE, rows |-> <<>>]]
  /\ inflight = EmptyBag
  /\ running = FALSE
  /\ last = NoResponse
  /\ now = 0
  /\ scope \in FileNames

\* ----------------------------------------------------------------- helpers

\* fs.promises.readFile: the handler that awaits it yields the thread.
readFile == FALSE

\* fs.readFileSync returns without yielding: the handler that loads still holds
\* the thread, and holds it until it returns.
readFileSync == TRUE

\* The load that takes whatever records the file holds, readable or not.
loadJSONRaw(file) == [present |-> TRUE, rows |-> disk[file].rows]

\* loadJSON(file): the parsed object, or {} when the file cannot be read or parsed.
loadJSON(file) ==
  IF disk[file].readable
  THEN [present |-> TRUE, rows |-> disk[file].rows]
  ELSE NoData

\* data.<collection> || []
Rows(data) == IF data.present THEN data.rows ELSE <<>>

\* saveJSON(file, data)
saveJSON(file, rows) ==
  disk' = [disk EXCEPT ![file] = [readable |-> TRUE, rows |-> rows]]

\* json(res, status, data).  A message is given by its first words.
json(route, args, status, body) ==
  last' = [route |-> route, args |-> args, status |-> status, body |-> body]

\* A step that writes no response.
Silent == last' = NoResponse

\* new Date(): a reading t of the clock, not before the reading before it.
Date(t) == t \in now..MaxClock /\ now' = t

getIP(req) == Or(req.xff, Or(req.remote, <<"u","n","k","n","o","w","n">>))

\* The key that falls back on the secret when the request gives none.
adminKeyOrDefault(req) == Or(Or(req.key, req.query), ADMIN_KEY)

\* req.headers['x-admin-key'] || url.searchParams.get('key')
adminKey(req) == Or(req.key, req.query)

\* The refusal that says nothing.
UnauthorizedBare == [NoBody EXCEPT !.keys = {"success"}]

\* { success: false, message: 'Unauthorized' }
Unauthorized ==
  [NoBody EXCEPT !.keys = {"success", "message"}, !.message = "Unauthorized"]

\* Array.prototype.findIndex, 1-based: 0 when no element is in S.
FirstIndex(S) == IF S = {} THEN 0 ELSE CHOOSE i \in S : \A j \in S : i <= j

\* Array.prototype.filter
RECURSIVE Filter(_, _)
Filter(rows, keep) ==
  IF rows = <<>> THEN <<>>
  ELSE (IF 1 \in keep THEN <<Head(rows)>> ELSE <<>>)
         \o Filter(Tail(rows), {i - 1 : i \in keep \ {1}})

\* Array.prototype.sort by a number, largest first: the sort is stable, so items
\* of equal key keep their order.  key[i] is the key of items[i].
SortDescBy(items, key) ==
  LET n == Len(items)
      Rank(i) == 1 + Cardinality({j \in 1..n : \/ key[j] > key[i]
                                               \/ key[j] = key[i] /\ j < i})
  IN [r \in 1..n |-> items[CHOOSE i \in 1..n : Rank(i) = r]]

\* The distinct items of a sequence, each where it comes first.
RECURSIVE Distinct(_)
Distinct(items) ==
  IF items = <<>> THEN <<>>
  ELSE LET front == Distinct(SubSeq(items, 1, Len(items) - 1))
           x == items[Len(items)]
       IN IF x \in Range(front) THEN front ELSE Append(front, x)

Count(items, x) == Cardinality({i \in 1..Len(items) : items[i] = x})

\* RegExp.prototype.test for an alternation of literals, with the i flag.
Contains(s, pat) ==
  \E i \in 1..(Len(s) - Len(pat) + 1) : SubSeq(s, i, i + Len(pat) - 1) = pat

\* The test without the i flag.
TestCase(patterns, s) == \E pat \in patterns : Contains(s, pat)

TestI(patterns, s) == \E pat \in patterns : Contains(toLowerCase(s), pat)

FileOf(route) ==
  CASE route \in {"subscribe", "adminSubscribers", "delete"} -> "subscribers"
    [] route \in {"migrate", "adminMigrations", "patch"} -> "migrations"
    [] route \in {"pageview", "adminAnalytics"} -> "analytics"
    [] OTHER -> "waitlist"

Put(q) == SetToBag({q})

\* A request whose handler awaits parseBody(req).
Awaiting(route) ==
  [pc |-> "body", route |-> route, args |-> NoArgs, data |-> NoData]

\* A request whose handler has loaded its file.
Holding(route, args, file) ==
  [pc |-> "loaded", route |-> route, args |-> args, data |-> loadJSON(file)]

\* The event loop starts a handler, or resumes one, when no handler is running.
Accepts(route) ==
  /\ ~running
  /\ FileOf(route) = scope
  /\ BagCardinality(inflight) < MaxReqs

Resumes(q, route) ==
  /\ ~running
  /\ q \in BagToSet(inflight)
  /\ q.pc = "body"
  /\ q.route = route

Continues(q, route) ==
  /\ q \in BagToSet(inflight)
  /\ q.pc = "loaded"
  /\ q.route = route

\* The handler of q returns.
Returns(q) ==
  /\ inflight' = inflight (-) Put(q)
  /\ running' = FALSE

\* The handler of q goes on to hold the loaded file.
Loads(q, route, args, file) ==
  /\ inflight' = (inflight (-) Put(q)) (+) Put(Holding(route, args, file))
  /\ running' = readFileSync

\* A POST request arrives; its handler runs up to `await parseBody(req)`.
Arrive(route) ==
  /\ Accepts(route)
  /\ route \in {"subscribe", "migrate", "pageview", "waitlist"}
  /\ inflight' = inflight (+) Put(Awaiting(route))
  /\ Silent
  /\ UNCHANGED <<disk, running, now, scope>>

\* ------------------------------------------------------- POST /api/subscribe

SubscribeBodies ==
  {[email |-> Undefined, source |-> Undefined, name |-> Undefined],
   [email |-> EmailBad, source |-> Undefined, name |-> Undefined],
   [email |-> EmailA, source |-> Undefined, name |-> Undefined],
   [email |-> EmailAMixed, source |-> SourceAd, name |-> NameN],
   [email |-> EmailX, source |-> Undefined, name |-> NameN]}

\* The find that looks at the newest subscriber only.
findNewestSubscriber(subscribers, email) ==
  IF subscribers # <<>> /\ subscribers[Len(subscribers)].email = email
  THEN Len(subscribers) ELSE 0

findSubscriber(subscribers, email) ==
  FirstIndex({i \in 1..Len(subscribers) : subscribers[i].email = email})

\* Lines 98-106: the body is parsed, the fields normalised, the email validated
\* and the file loaded.
SubscribeBody(q) ==
  /\ Resumes(q, "subscribe")
  /\ \E body \in SubscribeBodies, req \in PublicReqs :
       LET email == toLowerCase(trim(Or(body.email, <<>>)))
           source == substring(trim(Or(body.source, Website)), 50)
           name == substring(trim(Or(body.name, <<>>)), 100)
           args == [raw |-> body.email, email |-> email, source |-> source,
                    name |-> name, ip |-> getIP(req)]
       IN IF email = <<>> \/ ~isValidEmail(email)
          THEN /\ json("subscribe", args, 400,
                       [NoBody EXCEPT !.keys = {"success", "message"},
                                      !.message = "Invalid email address."])
               /\ Returns(q)
               /\ UNCHANGED <<disk, now, scope>>
          ELSE /\ Loads(q, "subscribe", args, "subscribers")
               /\ Silent
               /\ UNCHANGED <<disk, now, scope>>

\* Lines 107-122: find, and push and save unless found.
SubscribeCommit(q) ==
  /\ Continues(q, "subscribe")
  /\ LET a == q.args
         subscribers == Rows(q.data)
     IN IF findSubscriber(subscribers, a.email) # 0
        THEN /\ json("subscribe", a, 200,
                     [NoBody EXCEPT !.keys = {"success", "message", "duplicate"},
                                    !.success = TRUE,
                                    !.message = "Already subscribed!",
                                    !.duplicate = TRUE])
             /\ UNCHANGED <<disk, now>>
        ELSE /\ \E bytes \in randomBytes(8), t \in 0..MaxClock :
                  /\ Date(t)
                  /\ saveJSON("subscribers",
                              Append(subscribers,
                                     [id |-> toHex(bytes), email |-> a.email,
                                      name |-> Or(a.name, Null),
                                      source |-> a.source,
                                      subscribedAt |-> t, ip |-> a.ip]))
             /\ json("subscribe", a, 200,
                     [NoBody EXCEPT !.keys = {"success", "message"},
                                    !.success = TRUE,
                                    !.message = "You're on the list!"])
  /\ Returns(q)
  /\ UNCHANGED scope

\* ------------------------------------------- GET /api/admin/subscribers

AdminSubscribers ==
  /\ Accepts("adminSubscribers")
  /\ \E req \in AdminReqs :
       LET args == [key |-> req.key, query |-> req.query]
       IN IF adminKey(req) # ADMIN_KEY
          THEN json("adminSubscribers", args, 401, Unauthorized)
          ELSE LET subscribers == Rows(loadJSON("subscribers"))
               IN json("adminSubscribers", args, 200,
                       [NoBody EXCEPT !.keys = {"success", "count", "subscribers"},
                                      !.success = TRUE,
                                      !.count = Len(subscribers),
                                      !.rows = subscribers])
  /\ UNCHANGED <<disk, inflight, running, now, scope>>

\* ------------------------------------ DELETE /api/admin/subscribers/:email

DeleteParams == {<<"A","%","4","0","b",".","c">>, EmailX}

\* Lines 195-199: the key is checked, the email decoded and the file loaded.  A
\* URIError is thrown outside any try: the request is never answered.
DeleteArrive ==
  /\ Accepts("delete")
  /\ \E req \in AdminWriteReqs, param \in DeleteParams :
       LET decoded == decodeURIComponent(param)
           args == [key |-> req.key, query |-> req.query, param |-> param,
                    emailToDelete |-> toLowerCase(decoded)]
       IN IF adminKey(req) # ADMIN_KEY
          THEN /\ json("delete", args, 401, Unauthorized)
               /\ UNCHANGED <<disk, inflight, running, now, scope>>
          ELSE IF decoded = URIError
          THEN /\ inflight' = inflight (+) Put([Awaiting("delete") EXCEPT !.pc = "hung"])
               /\ Silent
               /\ UNCHANGED <<disk, running, now, scope>>
          ELSE /\ inflight' = inflight (+) Put(Holding("delete", args, "subscribers"))
               /\ running' = readFileSync
               /\ Silent
               /\ UNCHANGED <<disk, now, scope>>

\* The filter that keeps what it should drop.
keepSubscriber(subscribers, emailToDelete) ==
  Filter(subscribers,
         {i \in 1..Len(subscribers) : subscribers[i].email = emailToDelete})

\* (data.subscribers || []).filter(s => s.email !== emailToDelete)
removeSubscriber(subscribers, emailToDelete) ==
  Filter(subscribers,
         {i \in 1..Len(subscribers) : subscribers[i].email # emailToDelete})

\* Lines 200-207: filter, and save unless nothing was filtered out.
DeleteCommit(q) ==
  /\ Continues(q, "delete")
  /\ LET a == q.args
         subscribers == Rows(q.data)
         before == Len(subscribers)
         kept == removeSubscriber(subscribers, a.emailToDelete)
     IN IF Len(kept) = before
        THEN /\ json("delete", a, 404,
                     [NoBody EXCEPT !.keys = {"success", "message"},
                                    !.message = "Subscriber not found"])
             /\ UNCHANGED disk
        ELSE /\ saveJSON("subscribers", kept)
             /\ json("delete", a, 200,
                     [NoBody EXCEPT !.keys = {"success", "message"},
                                    !.success = TRUE,
                                    !.message = "Removed"])
  /\ Returns(q)
  /\ UNCHANGED <<now, scope>>

\* --------------------------------------------------------- POST /api/migrate

EthA == <<"0","x">> \o Rep("a", 40)
\* trims to an address that lowercases to EthA
EthAUpper == <<" ","0","x">> \o Rep("A", 40) \o <<" ">>
EthB == <<"0","x">> \o Rep("b", 40)
\* one hex digit short
EthShort == <<"0","x">> \o Rep("a", 39)

Sol1 == Rep("S", 32)
\* trims to 44 characters
Sol2 == <<" ">> \o Rep("T", 44)
\* "0" is no base-58 character
SolBad == Rep("0", 32)

Pending == <<"p","e","n","d","i","n","g">>
Verified == <<"v","e","r","i","f","i","e","d">>
Airdropped == <<"a","i","r","d","r","o","p","p","e","d">>

MigrateBodies ==
  {[ethAddress |-> EthShort, solAddress |-> SolBad, email |-> Undefined,
    balance |-> Undefined],
   [ethAddress |-> EthA, solAddress |-> SolBad, email |-> Undefined,
    balance |-> Undefined],
   [ethAddress |-> EthA, solAddress |-> Sol1, email |-> EmailAMixed,
    balance |-> <<" ","5">>],
   [ethAddress |-> EthAUpper, solAddress |-> Sol2, email |-> Undefined,
    balance |-> Undefined],
   [ethAddress |-> EthB, solAddress |-> Sol1, email |-> Undefined,
    balance |-> Undefined]}

\* The find with the stored and the given address compared as they are.
findRegistrationExact(registrations, ethAddress) ==
  FirstIndex({i \in 1..Len(registrations) :
                registrations[i].ethAddress = ethAddress})

\* data.registrations.find(r => r.ethAddress.toLowerCase() === ethAddress.toLowerCase())
findRegistration(registrations, ethAddress) ==
  FirstIndex({i \in 1..Len(registrations) :
                toLowerCase(registrations[i].ethAddress) = toLowerCase(ethAddress)})

\* The validation that looks at the Solana address first.
migrateErrorSolFirst(ethAddress, solAddress) ==
  IF ~isValidSol(solAddress) THEN "Invalid Solana address."
  ELSE IF ~isValidEth(ethAddress) THEN "Invalid Ethereum address."
  ELSE ""

\* Lines 139-143: the message of the 400 response, "" when both addresses pass.
migrateError(ethAddress, solAddress) ==
  IF ~isValidEth(ethAddress) THEN "Invalid Ethereum address."
  ELSE IF ~isValidSol(solAddress) THEN "Invalid Solana address."
  ELSE ""

\* Lines 133-145: the body is parsed, the fields normalised, the two addresses
\* validated (the Ethereum address first) and the file loaded.
MigrateBody(q) ==
  /\ Resumes(q, "migrate")
  /\ \E body \in MigrateBodies, req \in PublicReqs :
       LET ethAddress == trim(Or(body.ethAddress, <<>>))
           solAddress == trim(Or(body.solAddress, <<>>))
           email == Or(toLowerCase(trim(Or(body.email, <<>>))), Null)
           balance == IF Falsy(body.balance) THEN Null ELSE trim(body.balance)
           args == [raw |-> [ethAddress |-> body.ethAddress,
                             solAddress |-> body.solAddress],
                    ethAddress |-> ethAddress, solAddress |-> solAddress,
                    email |-> email, balance |-> balance, ip |-> getIP(req)]
       IN IF migrateError(ethAddress, solAddress) # ""
          THEN /\ json("migrate", args, 400,
                       [NoBody EXCEPT
                          !.keys = {"success", "message"},
                          !.message = migrateError(ethAddress, solAddress)])
               /\ Returns(q)
               /\ UNCHANGED <<disk, now, scope>>
          ELSE /\ Loads(q, "migrate", args, "migrations")
               /\ Silent
               /\ UNCHANGED <<disk, now, scope>>

\* The update that also starts the registration over.
restartRegistration(reg, solAddress, t) ==
  [reg EXCEPT !.solAddress = solAddress, !.updatedAt = t,
              !.status = Pending, !.registeredAt = t]

\* The update that is given to pending registrations only.
updatePending(reg, solAddress, t) ==
  IF reg.status = Pending
  THEN [reg EXCEPT !.solAddress = solAddress, !.updatedAt = t]
  ELSE reg

\* Lines 154-156: the registration found takes the new Solana address and a stamp.
updateRegistration(reg, solAddress, t) ==
  [reg EXCEPT !.solAddress = solAddress, !.updatedAt = t]

\* Lines 146-176: find by lowercased Ethereum address; update the Solana address
\* of the registration found if it differs, else push a new registration.
MigrateCommit(q) ==
  /\ Continues(q, "migrate")
  /\ LET a == q.args
         registrations == Rows(q.data)
         existing == findRegistration(registrations, a.ethAddress)
     IN IF existing # 0
        THEN IF registrations[existing].solAddress # a.solAddress
             THEN /\ \E t \in 0..MaxClock :
                       /\ Date(t)
                       /\ saveJSON("migrations",
                                   [registrations EXCEPT
                                      ![existing] =
                                        updateRegistration(@, a.solAddress, t)])
                  /\ json("migrate", a, 200,
                          [NoBody EXCEPT
                             !.keys = {"success", "message", "duplicate"},
                             !.success = TRUE,
                             !.message = "Your Solana address has been updated.",
                             !.duplicate = TRUE])
             ELSE /\ json("migrate", a, 200,
                          [NoBody EXCEPT
                             !.keys = {"success", "message", "duplicate"},
                             !.success = TRUE,
                             !.message = "Already registered",
                             !.duplicate = TRUE])
                  /\ UNCHANGED <<disk, now>>
        ELSE /\ \E bytes \in randomBytes(8), t \in 0..MaxClock :
                  /\ Date(t)
                  /\ saveJSON("migrations",
                              Append(registrations,
                                     [id |-> toHex(bytes),
                                      ethAddress |-> toLowerCase(a.ethAddress),
                                      solAddress |-> a.solAddress,
                                      email |-> a.email,
                                      selfReportedBalance |-> a.balance,
                                      status |-> Pending,
                                      registeredAt |-> t,
                                      ip |-> a.ip,
                                      updatedAt |-> -1,
                                      verifiedBalance |-> Undefined,
                                      txHash |-> Undefined]))
             /\ json("migrate", a, 200,
                     [NoBody EXCEPT !.keys = {"success", "message"},
                                    !.success = TRUE,
                                    !.message = "Registration recorded!"])
  /\ Returns(q)
  /\ UNCHANGED scope

\* -------------------------------------------- GET /api/admin/migrations

CountStatus(regs, status) ==
  Cardinality({i \in 1..Len(regs) : regs[i].status = status})

AdminMigrations ==
  /\ Accepts("adminMigrations")
  /\ \E req \in AdminReqs :
       LET args == [key |-> req.key, query |-> req.query]
       IN IF adminKey(req) # ADMIN_KEY
          THEN json("adminMigrations", args, 401, Unauthorized)
          ELSE LET regs == Rows(loadJSON("migrations"))
               IN json("adminMigrations", args, 200,
                       [NoBody EXCEPT
                          !.keys = {"success", "count", "pending", "verified",
                                    "airdropped", "registrations"},
                          !.success = TRUE,
                          !.count = Len(regs),
                          !.pending = CountStatus(regs, Pending),
                          !.verified = CountStatus(regs, Verified),
                          !.airdropped = CountStatus(regs, Airdropped),
                          !.rows = regs])
  /\ UNCHANGED <<disk, inflight, running, now, scope>>

\* ----------------------------------------- PATCH /api/admin/migrations/:id

\* An id that randomBytes(8) may have drawn, and one that it has not.
KnownId == toHex(Rep(171, 8))
UnknownId == <<"n","o","n","e">>

\* A body that sets the status and the verified balance, and a body whose status
\* and transaction hash are empty strings.
PatchVerify ==
  [status |-> Verified, verifiedBalance |-> <<"7">>, txHash |-> Undefined]
PatchEmpty ==
  [status |-> <<>>, verifiedBalance |-> Undefined, txHash |-> <<>>]

PatchInputs ==
  {[id |-> KnownId, body |-> PatchVerify], [id |-> KnownId, body |-> PatchEmpty],
   [id |-> UnknownId, body |-> PatchVerify]}

\* Lines 229-233: the key is checked; the handler then awaits parseBody(req).
PatchArrive ==
  /\ Accepts("patch")
  /\ \E req \in AdminWriteReqs :
       IF adminKey(req) # ADMIN_KEY
       THEN /\ json("patch", [key |-> req.key, query |-> req.query], 401,
                    Unauthorized)
            /\ UNCHANGED inflight
       ELSE /\ inflight' = inflight (+)
                           Put([Awaiting("patch") EXCEPT
                                  !.args = [key |-> req.key, query |-> req.query]])
            /\ Silent
  /\ UNCHANGED <<disk, running, now, scope>>

\* Lines 232-234: the id is the path's last segment; the body is parsed and the
\* file loaded.
PatchBody(q) ==
  /\ Resumes(q, "patch")
  /\ \E in \in PatchInputs :
       Loads(q, "patch",
             [key |-> q.args.key, query |-> q.args.query, id |-> in.id,
              body |-> in.body],
             "migrations")
  /\ Silent
  /\ UNCHANGED <<disk, now, scope>>

\* Lines 235-245: find by id; set the fields the body gives, stamp and save.
PatchCommit(q) ==
  /\ Continues(q, "patch")
  /\ LET a == q.args
         registrations == Rows(q.data)
         reg == FirstIndex({i \in 1..Len(registrations) :
                              registrations[i].id = a.id})
     IN IF reg = 0
        THEN /\ json("patch", a, 404,
                     [NoBody EXCEPT !.keys = {"success", "message"},
                                    !.message = "Not found"])
             /\ UNCHANGED <<disk, now>>
        ELSE \E t \in 0..MaxClock :
               LET old == registrations[reg]
                   new == [old EXCEPT
                             !.status = IF Falsy(a.body.status)
                                        THEN old.status ELSE a.body.status,
                             !.verifiedBalance =
                               IF a.body.verifiedBalance # Undefined
                               THEN a.body.verifiedBalance
                               ELSE old.verifiedBalance,
                             !.txHash = IF Falsy(a.body.txHash)
                                        THEN old.txHash ELSE a.body.txHash,
                             !.updatedAt = t]
               IN /\ Date(t)
                  /\ saveJSON("migrations", [registrations EXCEPT ![reg] = new])
                  /\ json("patch", a, 200,
                          [NoBody EXCEPT !.keys = {"success", "registration"},
                                         !.success = TRUE,
                                         !.rows = <<new>>])
  /\ Returns(q)
  /\ UNCHANGED scope

\* -------------------------------------------------------- POST /api/waitlist

\* " abababab" trims and uppercases to the code of the bytes ab ab ab ab.
RefAB == <<" ","a","b","a","b","a","b","a","b">>
Ref12 == <<"1","2","1","2","1","2","1","2">>

WaitlistBodies ==
  {[email |-> Undefined, name |-> Undefined, ref |-> Undefined],
   [email |-> EmailBad, name |-> Undefined, ref |-> Undefined],
   [email |-> EmailA, name |-> Undefined, ref |-> Undefined],
   [email |-> EmailAMixed, name |-> NameN, ref |-> RefAB],
   [email |-> EmailX, name |-> Undefined, ref |-> RefAB],
   [email |-> EmailY, name |-> NameN, ref |-> Ref12]}

\* data.members.findIndex(m => m.email === email), 1-based
findMember(members, email) ==
  FirstIndex({i \in 1..Len(members) : members[i].email = email})

\* data.members.find(m => m.refCode === refCode), 1-based
findReferrer(members, refCode) ==
  FirstIndex({i \in 1..Len(members) : members[i].refCode = refCode})

\* Lines 317-325: the body is parsed, the fields normalised, the email validated
\* and the file loaded.
WaitlistBody(q) ==
  /\ Resumes(q, "waitlist")
  /\ \E body \in WaitlistBodies, req \in PublicReqs :
       LET email == toLowerCase(trim(Or(body.email, <<>>)))
           name == substring(trim(Or(body.name, <<>>)), 100)
           refCode == Or(toUpperCase(substring(trim(Or(body.ref, <<>>)), 20)), Null)
           args == [raw |-> body.email, rawRef |-> body.ref, email |-> email,
                    name |-> name, refCode |-> refCode, ip |-> getIP(req)]
       IN IF email = <<>> \/ ~isValidEmail(email)
          THEN /\ json("waitlist", args, 400,
                       [NoBody EXCEPT !.keys = {"success", "message"},
                                      !.message = "Invalid email address."])
               /\ Returns(q)
               /\ UNCHANGED <<disk, now, scope>>
          ELSE /\ Loads(q, "waitlist", args, "waitlist")
               /\ Silent
               /\ UNCHANGED <<disk, now, scope>>

\* No handler reads a member's id: one draw of randomBytes(8) stands for all.
MemberIdBytes == {Rep(171, 8)}

\* The credit that then orders the members by their referrals.
creditAndSort(members, refCode, t) ==
  LET referrer == IF refCode = Null THEN 0
                  ELSE FirstIndex({i \in 1..Len(members) :
                                     members[i].refCode = refCode})
      credited == IF referrer = 0 THEN members
                  ELSE [members EXCEPT ![referrer].referrals = @ + 1,
                                       ![referrer].updatedAt = t]
  IN SortDescBy(credited, [i \in 1..Len(credited) |-> credited[i].referrals])

\* The credit given to every member when the code is no member's.
creditAnyone(members, refCode, t) ==
  LET referrer == IF refCode = Null THEN 0
                  ELSE FirstIndex({i \in 1..Len(members) :
                                     members[i].refCode = refCode})
  IN IF refCode = Null THEN members
     ELSE IF referrer = 0
     THEN [i \in 1..Len(members) |->
             [members[i] EXCEPT !.referrals = @ + 1, !.updatedAt = t]]
     ELSE [members EXCEPT ![referrer].referrals = @ + 1,
                          ![referrer].updatedAt = t]

\* The credit that counts the join twice.
creditTwice(members, refCode, t) ==
  LET referrer == IF refCode = Null THEN 0
                  ELSE FirstIndex({i \in 1..Len(members) :
                                     members[i].refCode = refCode})
  IN IF referrer = 0 THEN members
     ELSE [members EXCEPT ![referrer].referrals = @ + 2,
                          ![referrer].updatedAt = t]

\* The credit left out of the save that appends the member.
creditLater(members, refCode, t) == members

\* Lines 343-350: the member found by the referring code gets one more referral.
creditReferrer(members, refCode, t) ==
  LET referrer == IF refCode = Null THEN 0 ELSE findReferrer(members, refCode)
  IN IF referrer = 0 THEN members
     ELSE [members EXCEPT ![referrer].referrals = @ + 1,
                          ![referrer].updatedAt = t]

\* The report that first credits the code the replay cites.
duplicateJoinCredits(a, members, existing) ==
  LET referrer == IF a.refCode = Null THEN 0
                  ELSE FirstIndex({i \in 1..Len(members) :
                                     members[i].refCode = a.refCode})
      credited == IF referrer = 0 THEN members
                  ELSE [members EXCEPT ![referrer].referrals = @ + 1]
  IN /\ json("waitlist", a, 200,
             [NoBody EXCEPT
                !.keys = {"success", "message", "duplicate", "position",
                          "refCode", "referrals"},
                !.success = TRUE,
                !.message = "Already on the waitlist!",
                !.duplicate = TRUE,
                !.position = existing,
                !.refCode = credited[existing].refCode,
                !.referrals = credited[existing].referrals])
     /\ saveJSON("waitlist", credited)
     /\ UNCHANGED now

\* Lines 328-338: the member found by email is reported; nothing is saved.
duplicateJoin(a, members, existing) ==
  /\ json("waitlist", a, 200,
          [NoBody EXCEPT
             !.keys = {"success", "message", "duplicate", "position",
                       "refCode", "referrals"},
             !.success = TRUE,
             !.message = "Already on the waitlist!",
             !.duplicate = TRUE,
             !.position = existing,
             !.refCode = members[existing].refCode,
             !.referrals = members[existing].referrals])
  /\ UNCHANGED <<disk, now>>

\* Lines 326-374: the member found by email is reported; else a code is drawn,
\* the referrer credited, the member pushed and the file saved.
WaitlistCommit(q) ==
  /\ Continues(q, "waitlist")
  /\ LET a == q.args
         members == Rows(q.data)
         existing == findMember(members, a.email)
     IN IF existing # 0
        THEN duplicateJoin(a, members, existing)
        ELSE \E codeBytes \in randomBytes(4), idBytes \in MemberIdBytes,
                t1 \in now..MaxClock, t2 \in 0..MaxClock :
               LET code == toUpperCase(toHex(codeBytes))
                   member == [id |-> toHex(idBytes), email |-> a.email,
                              name |-> Or(a.name, Null), refCode |-> code,
                              referredBy |-> Or(a.refCode, Null), referrals |-> 0,
                              joinedAt |-> t2, ip |-> a.ip, updatedAt |-> -1]
                   saved == Append(creditReferrer(members, a.refCode, t1), member)
               IN /\ t1 <= t2
                  /\ Date(t2)
                  /\ saveJSON("waitlist", saved)
                  /\ json("waitlist", a, 200,
                          [NoBody EXCEPT
                             !.keys = {"success", "message", "position",
                                       "refCode", "referrals", "total"},
                             !.success = TRUE,
                             !.message = "You're on the waitlist!",
                             !.position = Len(saved),
                             !.refCode = code,
                             !.referrals = 0,
                             !.total = Len(saved)])
  /\ Returns(q)
  /\ UNCHANGED scope

\* ------------------------------------------- GET /api/waitlist/position

PositionEmails == {Null, EmailAMixed, EmailX, EmailY}

Position ==
  /\ Accepts("position")
  /\ \E param \in PositionEmails :
       LET email == toLowerCase(trim(Or(param, <<>>)))
           args == [raw |-> param, email |-> email]
           members == Rows(loadJSON("waitlist"))
           idx == findMember(members, email)
       IN IF email = <<>> \/ ~isValidEmail(email)
          THEN json("position", args, 400,
                    [NoBody EXCEPT !.keys = {"success", "message"},
                                   !.message = "Invalid email."])
          ELSE IF idx = 0
          THEN json("position", args, 404,
                    [NoBody EXCEPT !.keys = {"success", "message"},
                                   !.message = "Not found on waitlist."])
          ELSE json("position", args, 200,
                    [NoBody EXCEPT
                       !.keys = {"success", "position", "total", "refCode",
                                 "referrals"},
                       !.success = TRUE,
                       !.position = idx,
                       !.total = Len(members),
                       !.refCode = members[idx].refCode,
                       !.referrals = members[idx].referrals])
  /\ UNCHANGED <<disk, inflight, running, now, scope>>

\* ---------------------------------------------- GET /api/waitlist/stats

\* .slice(0, 10)
TopReferrers == 10

\* email.split('@')[0]
LocalPart(email) ==
  LET at == FirstIndex({i \in 1..Len(email) : email[i] = "@"})
  IN IF at = 0 THEN email ELSE SubSeq(email, 1, at - 1)

\* The members as they are stored, not sorted.
storedOrder(members) == members

\* Array.prototype.sort((a, b) => b.referrals - a.referrals)
SortByReferrals(members) ==
  SortDescBy(members, [i \in 1..Len(members) |-> members[i].referrals])

topReferrers(members) ==
  LET credited == Filter(members, {i \in 1..Len(members) : members[i].referrals > 0})
      top == SubSeq(SortByReferrals(credited), 1, Min(TopReferrers, Len(credited)))
  IN [i \in 1..Len(top) |->
        [name |-> Or(top[i].name, LocalPart(top[i].email)),
         referrals |-> top[i].referrals]]

\* The stats that sorts the stored members and saves them.
StatsSaving ==
  /\ Accepts("stats")
  /\ LET members == Rows(loadJSON("waitlist"))
     IN /\ json("stats", NoArgs, 200,
                [NoBody EXCEPT !.keys = {"success", "total", "topReferrers"},
                               !.success = TRUE,
                               !.total = Len(members),
                               !.rows = topReferrers(members)])
        /\ saveJSON("waitlist", SortByReferrals(members))
  /\ UNCHANGED <<inflight, running, now, scope>>

\* Lines 404-418
Stats ==
  /\ Accepts("stats")
  /\ LET members == Rows(loadJSON("waitlist"))
     IN json("stats", NoArgs, 200,
             [NoBody EXCEPT !.keys = {"success", "total", "topReferrers"},
                            !.success = TRUE,
                            !.total = Len(members),
                            !.rows = topReferrers(members)])
  /\ UNCHANGED <<disk, inflight, running, now, scope>>

\* ---------------------------------------------- GET /api/admin/waitlist

RECURSIVE SumReferrals(_)
SumReferrals(members) ==
  IF members = <<>> THEN 0
  ELSE Head(members).referrals + SumReferrals(Tail(members))

AdminWaitlist ==
  /\ Accepts("adminWaitlist")
  /\ \E req \in AdminReqs :
       LET args == [key |-> req.key, query |-> req.query]
       IN IF adminKey(req) # ADMIN_KEY
          THEN json("adminWaitlist", args, 401, Unauthorized)
          ELSE LET members == Rows(loadJSON("waitlist"))
               IN json("adminWaitlist", args, 200,
                       [NoBody EXCEPT
                          !.keys = {"success", "count", "totalReferrals",
                                    "members"},
                          !.success = TRUE,
                          !.count = Len(members),
                          !.totalReferrals = SumReferrals(members),
                          !.rows = members])
  /\ UNCHANGED <<disk, inflight, running, now, scope>>

\* -------------------------------------------------------- POST /api/pageview

\* /bot|crawler|spider|crawl|fetch|scraper|headless|lighthouse/i
BotPatterns ==
  {<<"b","o","t">>,
   <<"c","r","a","w","l","e","r">>,
   <<"s","p","i","d","e","r">>,
   <<"c","r","a","w","l">>,
   <<"f","e","t","c","h">>,
   <<"s","c","r","a","p","e","r">>,
   <<"h","e","a","d","l","e","s","s">>,
   <<"l","i","g","h","t","h","o","u","s","e">>}

\* /mobile|android|iphone|ipad/i
MobilePatterns ==
  {<<"m","o","b","i","l","e">>,
   <<"a","n","d","r","o","i","d">>,
   <<"i","p","h","o","n","e">>,
   <<"i","p","a","d">>}

\* /twitter\.com|t\.co/i, /t\.me|telegram/i, /google\./i, /discord/i, /reddit/i
TwitterPatterns == {<<"t","w","i","t","t","e","r",".","c","o","m">>, <<"t",".","c","o">>}
TelegramPatterns == {<<"t",".","m","e">>, <<"t","e","l","e","g","r","a","m">>}
GooglePatterns == {<<"g","o","o","g","l","e",".">>}
DiscordPatterns == {<<"d","i","s","c","o","r","d">>}
RedditPatterns == {<<"r","e","d","d","i","t">>}

\* Lines 262-270
refSource(referrer) ==
  IF referrer = <<>> THEN "direct"
  ELSE IF TestI(TwitterPatterns, referrer) THEN "twitter"
  ELSE IF TestI(TelegramPatterns, referrer) THEN "telegram"
  ELSE IF TestI(GooglePatterns, referrer) THEN "google"
  ELSE IF TestI(DiscordPatterns, referrer) THEN "discord"
  ELSE IF TestI(RedditPatterns, referrer) THEN "reddit"
  ELSE "other"

\* if (data.pageviews.length >= 10000) data.pageviews = data.pageviews.slice(-9000)
PruneAt == 10000
PruneKeep == 9000

UADesktop == <<"M","o","z","i","l","l","a","/","5",".","0">>
UAMobile == <<"i","P","h","o","n","e">>
UABot == <<"H","e","a","d","l","e","s","s","C","h","r","o","m","e">>

PageA == <<" ","/","a"," ">>
RefTelegram == <<"h","t","t","p","s",":","/","/","T",".","m","e","/","x">>
RefReddit == <<"h","t","t","p","s",":","/","/","w","w","w",".","r","e","d","d","i","t",".","c","o","m","/","r","/","x">>

\* The body and the user-agent header of a pageview.
PageviewInputs ==
  {[page |-> Undefined, referrer |-> Undefined, ua |-> UADesktop],
   [page |-> PageA, referrer |-> RefTelegram, ua |-> UAMobile],
   [page |-> PageA, referrer |-> RefReddit, ua |-> Undefined],
   [page |-> Undefined, referrer |-> Undefined, ua |-> UABot]}

\* The lengths of the pageview file at which the model goes on recording: the
\* first MaxViews events, and the MaxViews events up to the pruning length.
Watched(n) == n < MaxViews \/ (PruneAt - MaxViews <= n /\ n <= PruneAt)

\* Lines 251-272: the body is parsed, bots are turned away, the device and the
\* referrer classified and the file loaded.
PageviewBody(q) ==
  /\ Resumes(q, "pageview")
  /\ Watched(Len(disk["analytics"].rows))
  /\ \E in \in PageviewInputs :
       LET page == substring(trim(Or(in.page, <<"/">>)), 100)
           referrer == substring(trim(Or(in.referrer, <<>>)), 200)
           ua == Or(in.ua, <<>>)
           device == IF TestI(MobilePatterns, ua) THEN "mobile" ELSE "desktop"
           args == [ua |-> ua, referrer |-> referrer, page |-> page,
                    ref |-> refSource(referrer), device |-> device]
       IN IF TestI(BotPatterns, ua)
          THEN /\ json("pageview", args, 204, NoBody)
               /\ Returns(q)
               /\ UNCHANGED <<disk, now, scope>>
          ELSE /\ Loads(q, "pageview", args, "analytics")
               /\ Silent
               /\ UNCHANGED <<disk, now, scope>>

\* The prune that waits until more than 10000 are held.
pruneLate(pageviews) ==
  IF Len(pageviews) > PruneAt
  THEN SubSeq(pageviews, Len(pageviews) - PruneKeep + 1, Len(pageviews))
  ELSE pageviews

\* The prune that keeps the oldest.
pruneOldest(pageviews) ==
  IF Len(pageviews) >= PruneAt THEN SubSeq(pageviews, 1, PruneKeep) ELSE pageviews

\* data.pageviews.slice(-9000) once 10000 are held
prune(pageviews) ==
  IF Len(pageviews) >= PruneAt
  THEN SubSeq(pageviews, Len(pageviews) - PruneKeep + 1, Len(pageviews))
  ELSE pageviews

\* Lines 273-278: prune, push and save.
PageviewCommit(q) ==
  /\ Continues(q, "pageview")
  /\ \E t \in 0..MaxClock :
       /\ Date(t)
       /\ saveJSON("analytics",
                   Append(prune(Rows(q.data)),
                          [ts |-> t, page |-> q.args.page, ref |-> q.args.ref,
                           device |-> q.args.device]))
  /\ json("pageview", q.args, 200,
          [NoBody EXCEPT !.keys = {"success"}, !.success = TRUE])
  /\ Returns(q)
  /\ UNCHANGED scope

\* --------------------------------------------- GET /api/admin/analytics

\* The clock ticks TicksPerDay times a day (86400000 ms).
TicksPerDay == 1

\* v.ts.split('T')[0]: the calendar day of a timestamp
DayOf(ts) == ts \div TicksPerDay

DigitValue(c) == CHOOSE d \in 0..9 : HexDigits[d + 1] = c

\* parseInt(s) of a string of digits; NaN when s starts with none.
RECURSIVE DigitsValue(_)
DigitsValue(s) ==
  IF s = <<>> THEN 0
  ELSE 10 * DigitsValue(SubSeq(s, 1, Len(s) - 1)) + DigitValue(s[Len(s)])

RECURSIVE DigitPrefix(_)
DigitPrefix(s) ==
  IF s = <<>> \/ Head(s) \notin Digits THEN <<>>
  ELSE <<Head(s)>> \o DigitPrefix(Tail(s))

parseInt(s) ==
  LET digits == DigitPrefix(trimStart(s))
  IN [nan |-> digits = <<>>, value |-> DigitsValue(digits)]

DaysParams == {Null, <<"0">>}

\* Object.entries(counts): each key where it came first, with its count
Entries(keys) ==
  LET ks == Distinct(keys)
  IN [i \in 1..Len(ks) |-> [key |-> ks[i], count |-> Count(keys, ks[i])]]

\* The views later than the start of the window.
recentViewsExclusive(views, days, t) ==
  Filter(views, {i \in 1..Len(views) :
                   ~days.nan /\ views[i].ts > t - days.value * TicksPerDay})

\* views.filter(v => new Date(v.ts) >= since): no view is at or after an
\* invalid date.
recentViews(views, days, t) ==
  Filter(views, {i \in 1..Len(views) :
                   ~days.nan /\ views[i].ts >= t - days.value * TicksPerDay})

\* Lines 287-311
aggregate(views, days, t) ==
  LET recent == recentViews(views, days, t)
      byPage == Entries([i \in 1..Len(recent) |-> recent[i].page])
      byRef == Entries([i \in 1..Len(recent) |-> recent[i].ref])
      byDevice == Entries([i \in 1..Len(recent) |-> recent[i].device])
      byDay == Entries([i \in 1..Len(recent) |-> DayOf(recent[i].ts)])
      pages == SortDescBy(byPage, [i \in 1..Len(byPage) |-> byPage[i].count])
  IN [NoBody EXCEPT
        !.keys = {"success", "period", "total", "allTime", "topPages", "sources",
                  "devices", "dailyTrend"},
        !.success = TRUE,
        !.total = Len(recent),
        !.allTime = Len(views),
        !.rows = SubSeq(pages, 1, Min(20, Len(pages))),
        !.sources = Range(byRef),
        !.devices = Range(byDevice),
        !.dailyTrend = SortDescBy(byDay, [i \in 1..Len(byDay) |-> 0 - byDay[i].key])]

AdminAnalytics ==
  /\ Accepts("adminAnalytics")
  /\ \E req \in AdminReqs, param \in DaysParams :
       LET args == [key |-> req.key, query |-> req.query, days |-> param]
       IN IF adminKey(req) # ADMIN_KEY
          THEN /\ json("adminAnalytics", args, 401, Unauthorized)
               /\ UNCHANGED now
          ELSE \E t \in 0..MaxClock :
                 /\ Date(t)
                 /\ json("adminAnalytics", args, 200,
                         aggregate(Rows(loadJSON("analytics")),
                                   parseInt(Or(param, <<"7">>)), t))
  /\ UNCHANGED <<disk, inflight, running, scope>>

\* ------------------------------------------------------- GET /api/health

\* Lines 436-449.  The response's ts is a reading of the clock that nothing
\* keeps: the readings that are kept stay ordered whatever it was.

Health ==
  /\ ~running
  /\ BagCardinality(inflight) < MaxReqs
  /\ json("health", NoArgs, 200,
          [NoBody EXCEPT
             !.keys = {"status", "subscribers", "migrations", "pageviews",
                       "waitlist", "ts"},
             !.counts = <<Len(Rows(loadJSON("subscribers"))),
                          Len(Rows(loadJSON("migrations"))),
                          Len(Rows(loadJSON("analytics"))),
                          Len(Rows(loadJSON("waitlist")))>>])
  /\ UNCHANGED <<disk, inflight, running, now, scope>>

\* -------------------------------------------------------------------- spec

Requests == BagToSet(inflight)

NextSubscribers ==
  \/ Arrive("subscribe")
  \/ \E q \in Requests : SubscribeBody(q)
  \/ \E q \in Requests : SubscribeCommit(q)
  \/ AdminSubscribers
  \/ DeleteArrive
  \/ \E q \in Requests : DeleteCommit(q)

NextMigrations ==
  \/ Arrive("migrate")
  \/ \E q \in Requests : MigrateBody(q)
  \/ \E q \in Requests : MigrateCommit(q)
  \/ AdminMigrations
  \/ PatchArrive
  \/ \E q \in Requests : PatchBody(q)
  \/ \E q \in Requests : PatchCommit(q)

NextWaitlist ==
  \/ Arrive("waitlist")
  \/ \E q \in Requests : WaitlistBody(q)
  \/ \E q \in Requests : WaitlistCommit(q)
  \/ Position
  \/ Stats
  \/ AdminWaitlist

NextAnalytics ==
  \/ Arrive("pageview")
  \/ \E q \in Requests : PageviewBody(q)
  \/ \E q \in Requests : PageviewCommit(q)
  \/ AdminAnalytics

Next ==
  \/ NextSubscribers
  \/ NextMigrations
  \/ NextWaitlist
  \/ NextAnalytics
  \/ Health

Spec == Init /\ [][Next]_vars

\* One service alone.
InitSubscribers == Init /\ scope = "subscribers"

SpecSubscribers == InitSubscribers /\ [][NextSubscribers]_vars

InitMigrations == Init /\ scope = "migrations"

SpecMigrations == InitMigrations /\ [][NextMigrations]_vars

InitWaitlist == Init /\ scope = "waitlist"

SpecWaitlist == InitWaitlist /\ [][NextWaitlist]_vars

InitAnalytics == Init /\ scope = "analytics"

SpecAnalytics == InitAnalytics /\ [][NextAnalytics]_vars

\* ------------------------------------------------------------------ claims

subscribers == disk["subscribers"].rows
registrations == disk["migrations"].rows
members == disk["waitlist"].rows

\* The key of each record of a sequence, by position.
Emails(rows) == [i \in 1..Len(rows) |-> rows[i].email]
SourceKeys(rows) == [i \in 1..Len(rows) |-> toLowerCase(rows[i].ethAddress)]
NoRepeat(keys) ==
  \A i, j \in 1..Len(keys) : keys[i] = keys[j] => i = j

\* C1: in every reachable state no two subscribers share an email, no two
\* waitlist members share an email, and no two registrations share a lowercased
\* Ethereum address.
C1_UniqueKeys ==
  /\ NoRepeat(Emails(subscribers))
  /\ NoRepeat(Emails(members))
  /\ NoRepeat(SourceKeys(registrations))

\* C1's case: two registrations are stored, and the request just answered gave
\* the address of one of them in other letters and was told it is a duplicate.
C1_TwoKeysAndADuplicate ==
  /\ Len(registrations) >= 2
  /\ last.route = "migrate"
  /\ last.body.duplicate
  /\ \E i \in 1..Len(registrations) :
       /\ registrations[i].ethAddress # trim(last.args.raw.ethAddress)
       /\ registrations[i].ethAddress = toLowerCase(trim(last.args.raw.ethAddress))

\* The requests in flight that have loaded their file and not yet returned.
Loaded == {q \in BagToSet(inflight) : q.pc = "loaded"}

Writers == {"subscribe", "migrate", "waitlist"}

\* The key a writing request is deduplicated by, from what it sent.
SentKey(route, args) ==
  IF route = "migrate"
  THEN toLowerCase(trim(Or(args.raw.ethAddress, <<>>)))
  ELSE toLowerCase(trim(Or(args.raw, <<>>)))

StoredKeys(file) ==
  IF file = "migrations" THEN Range(SourceKeys(disk[file].rows))
  ELSE Range(Emails(disk[file].rows))

\* C2: at most one request at a time is between its load and its return, what
\* it loaded is what the file still holds, and a step that appends to a
\* collection appends a key that the collection did not hold before the step.
C2_Serialized ==
  [][/\ \A q \in Loaded :
          /\ Loaded = {q}
          /\ CopiesIn(q, inflight) = 1
          /\ q.data = loadJSON(FileOf(q.route))
      /\ \A f \in {"subscribers", "migrations", "waitlist"} :
          Len(disk'[f].rows) > Len(disk[f].rows) =>
            /\ last'.route \in Writers
            /\ FileOf(last'.route) = f
            /\ SentKey(last'.route, last'.args) \notin StoredKeys(f)]_vars

\* C2's case: a request has just appended its record while another request for
\* the same operation, which arrived before that load, is still receiving its
\* body.
C2_AppendedWhileAnotherAwaits ==
  /\ last.route \in Writers
  /\ last.status = 200
  /\ ~last.body.duplicate
  /\ \E q \in BagToSet(inflight) : q.pc = "body" /\ q.route = last.route
  /\ Len(disk[FileOf(last.route)].rows) >= 2

\* What trimming and lowercasing make of an email as it was sent.
Normalized(raw) == toLowerCase(trim(Or(raw, <<>>)))

\* C3: a step that answers a subscribe whose email, trimmed and lowercased, is
\* the email of a stored subscriber answers success with duplicate = true and
\* leaves every file as it was, that email being stored exactly once.
C3_SubscribeIdempotent ==
  [][(/\ last'.route = "subscribe"
      /\ Normalized(last'.args.raw) \in Range(Emails(subscribers)))
     => /\ last'.status = 200
        /\ last'.body.success
        /\ "duplicate" \in last'.body.keys
        /\ last'.body.duplicate
        /\ disk' = disk
        /\ Count(Emails(disk'["subscribers"].rows), Normalized(last'.args.raw)) = 1]_vars

\* C3's case: " A@B.c " was just answered as a duplicate of the stored a@b.c,
\* another subscriber being stored too.
C3_MixedCaseDuplicate ==
  /\ last.route = "subscribe"
  /\ last.args.raw = EmailAMixed
  /\ last.body.duplicate
  /\ EmailA \in Range(Emails(subscribers))
  /\ Len(subscribers) = 2

\* The registration stored under the Ethereum address a request sent, or 0.
StoredUnder(rows, rawEth) ==
  FirstIndex({i \in 1..Len(rows) : SourceKeys(rows)[i] = toLowerCase(trim(rawEth))})

\* C4: a step that answers a register whose two addresses are valid and whose
\* Ethereum address is stored (letter case apart) adds no registration.  If the
\* trimmed Solana address differs from the stored one it replaces it, the step's
\* clock reading is stamped as updatedAt and the answer is the "updated"
\* duplicate; otherwise the answer is the "already registered" duplicate and
\* nothing is persisted.  Either way every other field and every other
\* registration is as it was, and the address is stored once.
C4_RegisterExisting ==
  [][(/\ last'.route = "migrate"
      /\ isValidEth(trim(last'.args.raw.ethAddress))
      /\ isValidSol(trim(last'.args.raw.solAddress))
      /\ StoredUnder(registrations, last'.args.raw.ethAddress) # 0)
     => LET i == StoredUnder(registrations, last'.args.raw.ethAddress)
            sol == trim(last'.args.raw.solAddress)
            old == registrations[i]
            after == disk'["migrations"].rows
        IN /\ Len(after) = Len(registrations)
           /\ \A j \in 1..Len(after) : j # i => after[j] = registrations[j]
           /\ after[i].status = old.status
           /\ after[i].registeredAt = old.registeredAt
           /\ Count(SourceKeys(after), SourceKeys(registrations)[i]) = 1
           /\ last'.status = 200
           /\ last'.body.success
           /\ last'.body.duplicate
           /\ IF old.solAddress # sol
              THEN /\ after[i] = [old EXCEPT !.solAddress = sol, !.updatedAt = now']
                   /\ now' >= now
                   /\ last'.body.message = "Your Solana address has been updated."
              ELSE /\ disk' = disk
                   /\ last'.body.message = "Already registered"]_vars

\* C4's case: a registration that an admin has marked verified was registered
\* again, in other letters and with another Solana address, beside a second
\* registration, and the "updated" duplicate was just reported.
C4_VerifiedUpdated ==
  /\ last.route = "migrate"
  /\ last.args.raw.ethAddress = EthAUpper
  /\ last.body.message = "Your Solana address has been updated."
  /\ Len(registrations) = 2
  /\ \E i \in 1..Len(registrations) :
       /\ registrations[i].ethAddress = EthA
       /\ registrations[i].status = Verified
       /\ registrations[i].solAddress = trim(Sol2)
       /\ registrations[i].updatedAt > registrations[i].registeredAt

\* The referring code a join sent, as the handler reads it.
CitedCode(raw) == Or(toUpperCase(substring(trim(Or(raw, <<>>)), 20)), Null)

\* The step answers a join that created a member.
Joined ==
  /\ last'.route = "waitlist"
  /\ last'.status = 200
  /\ ~last'.body.duplicate

Holders(rows, code) == {i \in 1..Len(rows) : rows[i].refCode = code}

\* C5: a step that creates a member appends a member with 0 referrals, gives
\* one more referral to each stored member who holds the code the join cited
\* and leaves the referrals of every other stored member as they were; a join
\* whose code no stored member holds changes no referrals and still succeeds.
C5_CreditsTheHolder ==
  [][Joined =>
       LET after == disk'["waitlist"].rows
           cited == last'.args.refCode
       IN /\ Len(after) = Len(members) + 1
          /\ after[Len(after)].referrals = 0
          /\ last'.body.success
          /\ \A i \in 1..Len(members) :
               after[i].referrals =
                 members[i].referrals + (IF i \in Holders(members, cited) THEN 1 ELSE 0)]_vars

\* C6: in every reachable state no two waitlist members hold the same referral
\* code.
C6_UniqueCodes ==
  NoRepeat([i \in 1..Len(members) |-> members[i].refCode])

\* The fields of a member that say who joined, where and when.
Identity(m) ==
  [id |-> m.id, email |-> m.email, name |-> m.name, refCode |-> m.refCode,
   referredBy |-> m.referredBy, joinedAt |-> m.joinedAt, ip |-> m.ip]

\* The place of the member with this email in the stored sequence, or 0.
Rank(rows, email) == FirstIndex({i \in 1..Len(rows) : rows[i].email = email})

\* C7: every step keeps each stored member at its place (the stored sequence
\* is only ever appended to); the step that creates the k-th member answers
\* position k, the length of the sequence it persisted, with the member at
\* place k; and a position lookup, or a duplicate join, answers the place at
\* which the member is stored.
C7_RankStable ==
  [][LET after == disk'["waitlist"].rows
     IN /\ Len(after) >= Len(members)
        /\ \A i \in 1..Len(members) : Identity(after[i]) = Identity(members[i])
        /\ Joined =>
             /\ Len(after) = Len(members) + 1
             /\ last'.body.position = Len(after)
             /\ last'.body.total = Len(after)
             /\ after[Len(after)].email = Normalized(last'.args.raw)
        /\ (/\ last'.route \in {"position", "waitlist"}
            /\ ~Joined
            /\ Rank(members, Normalized(last'.args.raw)) # 0)
           => /\ last'.status = 200
              /\ last'.body.position = Rank(members, Normalized(last'.args.raw))
              /\ after = members]_vars

\* C7's case: three members are stored, the second has been credited with a
\* referral, and a lookup of the first member's email was just answered 1.
C7_FirstStillFirst ==
  /\ Len(members) = 3
  /\ members[2].referrals = 1
  /\ members[1].referrals = 0
  /\ last.route = "position"
  /\ last.args.email = members[1].email
  /\ last.body.position = 1

\* C8: a step that answers a join whose email, trimmed and lowercased, is a
\* stored member's leaves every file as it was and answers success with
\* duplicate = true and that member's place, code and referrals, whatever code
\* the join cites.
C8_DuplicateJoinFrame ==
  [][(/\ last'.route = "waitlist"
      /\ Rank(members, Normalized(last'.args.raw)) # 0)
     => LET m == members[Rank(members, Normalized(last'.args.raw))]
        IN /\ disk' = disk
           /\ last'.status = 200
           /\ last'.body.success
           /\ last'.body.duplicate
           /\ last'.body.position = Rank(members, Normalized(last'.args.raw))
           /\ last'.body.refCode = m.refCode
           /\ last'.body.referrals = m.referrals]_vars

\* C8's case: a duplicate join was just answered that cited the code of
\* another stored member, a code the member did not cite when it joined.
C8_ReplayCitesAnother ==
  /\ last.route = "waitlist"
  /\ last.body.duplicate
  /\ last.args.refCode # Null
  /\ \E i, j \in 1..Len(members) :
       /\ i # j
       /\ members[i].email = last.args.email
       /\ members[i].referredBy # last.args.refCode
       /\ members[j].refCode = last.args.refCode
       /\ members[i].refCode # members[j].refCode

\* C9: no step lowers a stored member's referrals, and a step that changes
\* them adds exactly 1 and is a step that creates another member, whose
\* referredBy, the code its join cited (trimmed and uppercased), is this
\* member's code.
C9_CreditsOnlyGrow ==
  [][LET after == disk'["waitlist"].rows
     IN /\ Len(after) >= Len(members)
        /\ \A i \in 1..Len(members) :
             /\ after[i].referrals >= members[i].referrals
             /\ after[i].referrals # members[i].referrals =>
                  /\ after[i].referrals = members[i].referrals + 1
                  /\ Joined
                  /\ Len(after) = Len(members) + 1
                  /\ after[Len(after)].email # members[i].email
                  /\ after[Len(after)].referredBy = members[i].refCode
                  /\ CitedCode(last'.args.rawRef) = members[i].refCode]_vars

\* C9's case: a join citing a stored member's code was just answered, and that
\* member, not the one who joined, now has a referral.
C9_Credited ==
  /\ last.route = "waitlist"
  /\ last.status = 200
  /\ ~last.body.duplicate
  /\ Len(members) >= 2
  /\ \E i \in 1..(Len(members) - 1) :
       /\ members[i].refCode = members[Len(members)].referredBy
       /\ members[i].referrals = 1
  /\ members[Len(members)].referrals = 0

AdminRoutes ==
  {"adminSubscribers", "delete", "adminMigrations", "patch", "adminAnalytics",
   "adminWaitlist"}

\* C10: a step that answers an admin operation whose request gave the secret
\* neither in the x-admin-key header nor in the key parameter answers 401 with
\* the Unauthorized body, which carries success and message and no record, and
\* leaves every file and every request in flight as it was.
C10_Unauthorized ==
  [][(/\ last'.route \in AdminRoutes
      /\ last'.args.key # ADMIN_KEY
      /\ last'.args.query # ADMIN_KEY)
     => /\ last'.status = 401
        /\ last'.body = Unauthorized
        /\ last'.body.keys = {"success", "message"}
        /\ ~last'.body.success
        /\ last'.body.rows = <<>>
        /\ disk' = disk
        /\ inflight' = inflight]_vars

\* C10's case: a request to remove a subscriber or to patch a registration
\* that gave a wrong key was just answered, records being stored.
C10_WrongKeyRefused ==
  /\ last.route \in {"delete", "patch"}
  /\ last.args.key = WrongKey
  /\ last.status = 401
  /\ disk[scope].rows # <<>>

\* The user agent holds, in letters of either case, one of the bot words.
BotSignature(ua) ==
  \E pat \in BotPatterns :
    \E i \in 1..Len(ua) :
      /\ i + Len(pat) - 1 <= Len(ua)
      /\ \A k \in 1..Len(pat) : LowerChar(ua[i + k - 1]) = pat[k]

\* C11: a step that answers a pageview whose user agent holds a bot word, in
\* letters of either case, answers 204 with an empty body, and leaves every
\* file, so the number of stored pageviews that allTime reports, as it was.
C11_BotsNotStored ==
  [][(last'.route = "pageview" /\ BotSignature(last'.args.ua))
     => /\ last'.status = 204
        /\ last'.body = NoBody
        /\ disk' = disk]_vars

\* C11's case: "HeadlessChrome" was just turned away, a pageview being stored.
C11_HeadlessTurnedAway ==
  /\ last.route = "pageview"
  /\ last.args.ua = UABot
  /\ last.status = 204
  /\ Len(disk["analytics"].rows) >= 1

\* A pageview of the site's front page, recorded at the first clock reading.
OldView == [ts |-> 0, page |-> <<"/">>, ref |-> "direct", device |-> "desktop"]

\* String(n) for a natural number.
RECURSIVE Numeral(_)
Numeral(n) ==
  IF n < 10 THEN <<HexDigits[n + 1]>>
  ELSE Append(Numeral(n \div 10), HexDigits[(n % 10) + 1])

\* The i-th pageview recorded: each of a page of its own, so that the events
\* that are kept can be told from the events that are dropped.
OldViewAt(i) == [OldView EXCEPT !.page = <<"/">> \o Numeral(i)]

\* The server with a pageview file that has filled up to, or nearly up to, the
\* pruning length.
InitRetention ==
  /\ \E n \in (PruneAt - MaxViews)..PruneAt :
       disk = [f \in FileNames |->
                 [readable |-> TRUE,
                  rows |-> IF f = "analytics" THEN [i \in 1..n |-> OldViewAt(i)]
                           ELSE <<>>]]
  /\ inflight = EmptyBag
  /\ running = FALSE
  /\ last = NoResponse
  /\ now = 0
  /\ scope = "analytics"

NextRetention ==
  \/ Arrive("pageview")
  \/ \E q \in Requests : PageviewBody(q)
  \/ \E q \in Requests : PageviewCommit(q)

SpecRetention == InitRetention /\ [][NextRetention]_vars

\* C12: the pageview file, which started with at most 10000 events, never
\* holds more than 10000.
C12_RetentionCeiling ==
  Len(disk["analytics"].rows) <= PruneAt

\* C12's case: a pageview was just recorded on a file that held 10000 events,
\* and the file holds the 9000 kept and the new one.
C12_PrunedThenAppended ==
  /\ last.route = "pageview"
  /\ last.status = 200
  /\ Len(disk["analytics"].rows) = PruneKeep + 1
  /\ disk["analytics"].rows[PruneKeep + 1].page = last.args.page

\* What each file held before it was damaged: one record, which the handlers
\* could have written.
OldRecord(f) ==
  CASE f = "subscribers" ->
         [id |-> toHex(Rep(18, 8)), email |-> EmailA, name |-> <<"O","l","d">>,
          source |-> Website, subscribedAt |-> 0, ip |-> Loopback]
    [] f = "migrations" ->
         [id |-> KnownId, ethAddress |-> EthA, solAddress |-> Sol1,
          email |-> Null, selfReportedBalance |-> Null, status |-> Airdropped,
          registeredAt |-> 0, ip |-> Loopback, updatedAt |-> -1,
          verifiedBalance |-> Undefined, txHash |-> Undefined]
    [] f = "waitlist" ->
         [id |-> toHex(Rep(18, 8)), email |-> EmailA, name |-> <<"O","l","d">>,
          refCode |-> toUpperCase(toHex(Rep(171, 4))), referredBy |-> Null,
          referrals |-> 0, joinedAt |-> 0, ip |-> Loopback, updatedAt |-> -1]
    [] OTHER -> OldView

\* The server starts on a file of its service that exists (lines 23-27 leave it
\* alone) and cannot be read or parsed.
InitCorrupt ==
  /\ scope \in FileNames
  /\ disk = [f \in FileNames |->
               IF f = scope THEN [readable |-> FALSE, rows |-> <<OldRecord(f)>>]
               ELSE [readable |-> TRUE, rows |-> <<>>]]
  /\ inflight = EmptyBag
  /\ running = FALSE
  /\ last = NoResponse
  /\ now = 0

SpecCorrupt == InitCorrupt /\ [][Next]_vars

HealthIndex(f) ==
  CASE f = "subscribers" -> 1 [] f = "migrations" -> 2 [] f = "analytics" -> 3
    [] OTHER -> 4

\* C13: a step that answers an operation on a file that cannot be read answers
\* as on an empty collection and with no server error: a listing, the stats,
\* the analytics and the health probe count nothing, a removal, a patch and a
\* position lookup find nothing, and a subscribe, register, join or pageview
\* that passes validation is new and persists a readable file that holds the
\* one record it made.
C13_CorruptAsEmpty ==
  [][\A f \in FileNames :
       (/\ ~disk[f].readable
        /\ last'.route # "none"
        /\ (last'.route = "health" \/ FileOf(last'.route) = f))
       => LET r == last'.route
              b == last'.body
          IN /\ last'.status \in {200, 204, 400, 401, 404}
             /\ r \notin {"subscribe", "migrate", "waitlist", "pageview"}
                  => disk' = disk
             /\ r = "health" => b.counts[HealthIndex(f)] = 0
             /\ (r \in {"adminSubscribers", "adminMigrations", "adminWaitlist"}
                 /\ last'.status # 401)
                  => last'.status = 200 /\ b.count = 0 /\ b.rows = <<>>
             /\ r = "adminMigrations" /\ last'.status # 401
                  => b.pending = 0 /\ b.verified = 0 /\ b.airdropped = 0
             /\ r = "adminWaitlist" /\ last'.status # 401 => b.totalReferrals = 0
             /\ r = "stats" => b.total = 0 /\ b.rows = <<>>
             /\ r = "adminAnalytics" /\ last'.status # 401
                  => /\ b.total = 0 /\ b.allTime = 0 /\ b.rows = <<>>
                     /\ b.sources = {} /\ b.devices = {} /\ b.dailyTrend = <<>>
             /\ r \in {"delete", "patch"} /\ last'.status # 401 => last'.status = 404
             /\ r = "position" /\ last'.status # 400 => last'.status = 404
             /\ r \in {"subscribe", "migrate", "waitlist", "pageview"}
                  => IF last'.status = 200
                     THEN /\ ~b.duplicate
                          /\ disk'[f].readable
                          /\ Len(disk'[f].rows) = 1
                          /\ r \in Writers =>
                               StoredKeys(f)' = {SentKey(r, last'.args)}
                          /\ r = "pageview" => disk'[f].rows[1].page = last'.args.page
                          /\ r = "waitlist" =>
                               /\ b.position = 1 /\ b.total = 1
                               /\ disk'[f].rows[1].referrals = 0
                     ELSE disk' = disk]_vars

\* C13's case: a@b.c, an email the unreadable subscriber file held, was just
\* subscribed as new, and the file holds that one new subscriber.
C13_ResubscribedAfterDamage ==
  /\ last.route = "subscribe"
  /\ last.args.email = EmailA
  /\ last.status = 200
  /\ ~last.body.duplicate
  /\ disk["subscribers"].readable
  /\ Len(subscribers) = 1
  /\ subscribers[1].name # OldRecord("subscribers").name

\* C14: a step that answers a subscribe or a join whose email, trimmed and
\* lowercased, is empty or fails the validator, or a register one of whose
\* trimmed addresses fails its validator, answers 400 with success = false and
\* leaves every file as it was; a register whose Ethereum address fails is told
\* so whatever its Solana address is.
C14_InvalidChangesNothing ==
  [][LET r == last'.route
         a == last'.args
         badEmail == Normalized(a.raw) = <<>> \/ ~isValidEmail(Normalized(a.raw))
         badEth == ~isValidEth(trim(Or(a.raw.ethAddress, <<>>)))
         badSol == ~isValidSol(trim(Or(a.raw.solAddress, <<>>)))
     IN /\ (r \in {"subscribe", "waitlist"} /\ badEmail)
           => /\ last'.status = 400
              /\ last'.body.keys = {"success", "message"}
              /\ ~last'.body.success
              /\ last'.body.message = "Invalid email address."
              /\ disk' = disk
        /\ (r = "migrate" /\ (badEth \/ badSol))
           => /\ last'.status = 400
              /\ last'.body.keys = {"success", "message"}
              /\ ~last'.body.success
              /\ last'.body.message = IF badEth THEN "Invalid Ethereum address."
                                      ELSE "Invalid Solana address."
              /\ disk' = disk]_vars

\* C14's case: a register whose two addresses are both invalid was just told
\* that its Ethereum address is, a registration being stored.
C14_BothInvalidNamesSource ==
  /\ last.route = "migrate"
  /\ last.args.raw.ethAddress = EthShort
  /\ last.args.raw.solAddress = SolBad
  /\ last.status = 400
  /\ last.body.message = "Invalid Ethereum address."
  /\ registrations # <<>>

\* The positions of a sequence at which this email is stored.
At(rows, email) == {i \in 1..Len(rows) : rows[i].email = email}

\* C15: a step that answers a removal that gave the admin key answers 404 and
\* leaves every file as it was when no subscriber has the decoded, lowercased
\* email; otherwise it answers 200 and persists the subscribers without that
\* email, the others in the order they had.  The email is then stored no
\* longer, so the same removal, repeated, is the first case.
C15_RemoveSubscriber ==
  [][(last'.route = "delete" /\ last'.args.key = ADMIN_KEY)
     => LET email == toLowerCase(decodeURIComponent(last'.args.param))
            after == disk'["subscribers"].rows
            rest == {i \in 1..Len(subscribers) : subscribers[i].email # email}
        IN IF At(subscribers, email) = {}
           THEN /\ last'.status = 404
                /\ ~last'.body.success
                /\ disk' = disk
           ELSE /\ last'.status = 200
                /\ last'.body.success
                /\ Len(after) = Cardinality(rest)
                /\ \A i \in rest :
                     after[Cardinality({j \in rest : j <= i})] = subscribers[i]
                /\ At(after, email) = {}
                /\ \A f \in FileNames \ {"subscribers"} : disk'[f] = disk[f]]_vars

\* C15's case: the first of two subscribers, given as A%40b.c, was just
\* removed, and the second is still stored.
C15_FirstOfTwoRemoved ==
  /\ last.route = "delete"
  /\ last.args.param = <<"A","%","4","0","b",".","c">>
  /\ last.status = 200
  /\ Len(subscribers) = 1
  /\ subscribers[1].email = EmailX

\* The field as the request gives it, or as it is stored when the request
\* does not give it.
Given(supplied, stored) == IF supplied = Undefined THEN stored ELSE supplied

\* C16: a step that answers a patch that gave the admin key answers 404 and
\* leaves every file as it was when no registration has the id; otherwise the
\* first registration with the id takes each of status, verifiedBalance and
\* txHash that the body gives, whatever its value, keeps the others, is
\* stamped with the step's clock reading, and is answered with 200, every other
\* field and every other registration being as it was.
C16_PatchSetsWhatIsGiven ==
  [][(last'.route = "patch" /\ last'.args.key = ADMIN_KEY)
     => LET a == last'.args
            i == FirstIndex({k \in 1..Len(registrations) : registrations[k].id = a.id})
            after == disk'["migrations"].rows
        IN IF i = 0
           THEN last'.status = 404 /\ disk' = disk
           ELSE /\ last'.status = 200
                /\ Len(after) = Len(registrations)
                /\ \A k \in 1..Len(after) : k # i => after[k] = registrations[k]
                /\ after[i] =
                     [registrations[i] EXCEPT
                        !.status = Given(a.body.status, @),
                        !.verifiedBalance = Given(a.body.verifiedBalance, @),
                        !.txHash = Given(a.body.txHash, @),
                        !.updatedAt = now']
                /\ last'.body.rows = <<after[i]>>]_vars

\* ------------------------------------------------ the ranking of referrers

\* The waitlist file after a run of first joins.  referrer[j] is the member
\* whose code the j-th join cited, 0 when it cited none: each member holds a
\* code of its own and as many referrals as joins cited it.
Letters == <<"a","b","c","d","e","f","g","h","i","j","k","l","m","n","o","p">>

MemberEmail(i) == <<Letters[i], "@", "b", ".", "c">>

CodeOf(i) == toUpperCase(toHex(Rep(i, 4)))

Roster(referrer) ==
  [i \in DOMAIN referrer |->
     LET cited == Cardinality({j \in DOMAIN referrer : referrer[j] = i})
     IN [id |-> toHex(Rep(171, 8)),
         email |-> MemberEmail(i),
         name |-> IF i % 2 = 0 THEN NameN ELSE Null,
         refCode |-> CodeOf(i),
         referredBy |-> IF referrer[i] = 0 THEN Null ELSE CodeOf(referrer[i]),
         referrals |-> cited,
         joinedAt |-> 0,
         ip |-> Loopback,
         updatedAt |-> IF cited = 0 THEN -1 ELSE 0]]

\* Every run of at most MaxMembers joins, each citing nobody or a member that
\* joined before it.
Referrers ==
  UNION {{r \in [1..k -> 0..MaxMembers] : \A j \in 1..k : r[j] < j} : k \in 0..MaxMembers}

\* A run with more credited members than the ranking shows: each join cites
\* the one before it, and the last cites the last member that the ranking
\* would otherwise drop.
LongReferrer ==
  [j \in 1..(TopReferrers + 3) |->
     IF j = TopReferrers + 3 THEN TopReferrers + 1 ELSE j - 1]

InitStats ==
  /\ \E r \in Referrers \cup {LongReferrer} :
       disk = [f \in FileNames |->
                 [readable |-> TRUE,
                  rows |-> IF f = "waitlist" THEN Roster(r) ELSE <<>>]]
  /\ inflight = EmptyBag
  /\ running = FALSE
  /\ last = NoResponse
  /\ now = 0
  /\ scope = "waitlist"

\* The views of the waitlist file.
NextStats ==
  \/ Stats
  \/ Position
  \/ AdminWaitlist

SpecStats == InitStats /\ [][NextStats]_vars

\* The members that stand ahead of member i among the members in pool: those
\* of more referrals, and those of as many that joined before.
Ahead(ms, pool, i) ==
  Cardinality({j \in pool : \/ ms[j].referrals > ms[i].referrals
                            \/ ms[j].referrals = ms[i].referrals /\ j < i})

\* The ranking of the members in pool that a stats response shows.
Ranked(ms, pool, resp) ==
  /\ resp.status = 200
  /\ resp.body.success = TRUE
  /\ resp.body.total = Len(ms)
  /\ Len(resp.body.rows) = Min(TopReferrers, Cardinality(pool))
  /\ \A i \in pool :
       Ahead(ms, pool, i) < TopReferrers
         => resp.body.rows[Ahead(ms, pool, i) + 1] =
              [name |-> IF ms[i].name \in {Null, <<>>}
                        THEN LocalPart(ms[i].email) ELSE ms[i].name,
               referrals |-> ms[i].referrals]

\* C17: a step that answers stats leaves every file as it was and reports the
\* number of members and, of the members with at least one referral, the ten
\* that stand first by referrals, largest first and equal ones in the order
\* they joined, each as its name (the part of its email before the "@" when it
\* has none) and its referrals.
C17_TopCreditedReferrers ==
  [][last'.route = "stats"
     => /\ disk' = disk
        /\ Ranked(members, {i \in 1..Len(members) : members[i].referrals > 0},
                  last')]_vars

\* C17 as stated: the ranking is of all the members.
C17_TopOfAllMembers ==
  [][last'.route = "stats"
     => /\ disk' = disk
        /\ Ranked(members, 1..Len(members), last')]_vars

\* C17 witness: stats has shown ten of eleven credited members, the one with
\* two referrals first, then members of one referral each, named and unnamed.
C17_ElevenCreditedTenShown ==
  /\ last.route = "stats"
  /\ Cardinality({i \in 1..Len(members) : members[i].referrals > 0}) > TopReferrers
  /\ Len(last.body.rows) = TopReferrers
  /\ last.body.rows[1] = [name |-> LocalPart(MemberEmail(TopReferrers + 1)),
                          referrals |-> 2]
  /\ last.body.rows[2] = [name |-> LocalPart(MemberEmail(1)), referrals |-> 1]
  /\ last.body.rows[3] = [name |-> NameN, referrals |-> 1]

\* ------------------------------------------------------------- the report

pageviews == disk["analytics"].rows

\* The sum of the counts of a set of groups.
RECURSIVE SumCounts(_)
SumCounts(groups) ==
  IF groups = {} THEN 0
  ELSE LET g == CHOOSE x \in groups : TRUE
       IN g.count + SumCounts(groups \ {g})

\* The days the request asks for: seven when it names none.
WindowDays(param) == IF param = Null THEN 7 ELSE DigitsValue(param)

\* C18: an analytics report gives as total the number of stored events no
\* older than the asked number of days at the reading of the clock, as allTime
\* the number of stored events, and counts by source, by device and by day
\* that each sum to total, the days in ascending order.
C18_Aggregate ==
  (last.route = "adminAnalytics" /\ last.status = 200)
    => LET b == last.body
           since == now - WindowDays(last.args.days) * TicksPerDay
       IN /\ b.total = Cardinality({i \in 1..Len(pageviews) : pageviews[i].ts >= since})
          /\ b.allTime = Len(pageviews)
          /\ b.total <= b.allTime
          /\ SumCounts(b.sources) = b.total
          /\ SumCounts(b.devices) = b.total
          /\ SumCounts(Range(b.dailyTrend)) = b.total
          /\ Len(b.dailyTrend) = Cardinality(Range(b.dailyTrend))
          /\ \A i, j \in 1..Len(b.dailyTrend) :
               i < j => b.dailyTrend[i].key < b.dailyTrend[j].key

\* C18 witness: of two stored events, the report of the last zero days counts
\* the one of the day of the query and not the one of the day before.
C18_OneOfTwoInWindow ==
  /\ last.route = "adminAnalytics"
  /\ last.status = 200
  /\ last.args.days = <<"0">>
  /\ last.body.total = 1
  /\ last.body.allTime = 2

\* ---------------------------------------------------- the response bodies

\* The operations whose every response has a message.
Messaging == {"subscribe", "migrate", "waitlist", "delete"}

\* C19: the health response and the response to a bot's pageview have neither
\* a success field nor a message; every other response has a success field,
\* true exactly when the status is 200, and has a message exactly when it
\* reports a failure or answers subscribe, migrate, the waitlist join or the
\* removal of a subscriber.
C19_SuccessAndSometimesMessage ==
  last.route # "none"
    => IF last.route = "health" \/ last.status = 204
       THEN last.body.keys \cap {"success", "message"} = {}
       ELSE /\ "success" \in last.body.keys
            /\ last.body.success = (last.status = 200)
            /\ "message" \in last.body.keys
                 <=> \/ last.status # 200 /\ last.route # "pageview"
                     \/ last.route \in Messaging

\* C19 as stated: every response has a success field and a message.
C19_SuccessAndMessage ==
  last.route # "none" => {"success", "message"} \subseteq last.body.keys

\* C19 witness: the health response, which has a status field and counts and
\* neither a success field nor a message.
C19_HealthHasNeither ==
  /\ last.route = "health"
  /\ "status" \in last.body.keys
  /\ "success" \notin last.body.keys
  /\ "message" \notin last.body.keys

\* ------------------------------------------------------------ failing steps

\* The handlers whose body is inside try { } catch { }: lines 97-127, 132-181,
\* 250-279 and 316-379.  The handlers of DELETE and PATCH have none.
Catching == {"subscribe", "migrate", "pageview", "waitlist"}

\* The catch blocks' responses: lines 126, 180, 279 and 378.
ServerError(route) ==
  IF route = "pageview"
  THEN [NoBody EXCEPT !.keys = {"success"}]
  ELSE [NoBody EXCEPT !.keys = {"success", "message"},
                      !.message = "Server error. Please try again."]

\* A step of the handler of q throws.  A catching handler answers 500 and
\* returns.  In the others the handler's promise rejects and nothing answers
\* the request: it stays open with no handler (a Node that exits on an
\* unhandled rejection closes it with every other, still unanswered).
Throws(q) ==
  /\ IF q.route \in Catching
     THEN /\ json(q.route, q.args, 500, ServerError(q.route))
          /\ inflight' = inflight (-) Put(q)
     ELSE /\ Silent
          /\ inflight' = (inflight (-) Put(q)) (+) Put([q EXCEPT !.pc = "hung"])
  /\ running' = FALSE
  /\ UNCHANGED <<disk, now, scope>>

\* Line 60: the request's stream emits 'error' and parseBody rejects.
BodyFails(q) ==
  /\ ~running
  /\ q \in BagToSet(inflight)
  /\ q.pc = "body"
  /\ Throws(q)

\* The handler of q, having loaded its file, goes on to call saveJSON: lines
\* 120, 157, 174, 206, 244, 277 and 363.
Saves(q) ==
  LET rows == Rows(q.data)
  IN CASE q.route = "subscribe" -> findSubscriber(rows, q.args.email) = 0
       [] q.route = "migrate" ->
            LET existing == findRegistration(rows, q.args.ethAddress)
            IN IF existing = 0 THEN TRUE
               ELSE rows[existing].solAddress # q.args.solAddress
       [] q.route = "waitlist" -> findMember(rows, q.args.email) = 0
       [] q.route = "pageview" -> TRUE
       [] q.route = "delete" ->
            Len(removeSubscriber(rows, q.args.emailToDelete)) # Len(rows)
       [] q.route = "patch" -> \E i \in 1..Len(rows) : rows[i].id = q.args.id
       [] OTHER -> FALSE

\* Line 37: fs.writeFileSync throws before it writes (the file cannot be
\* opened for writing).
SaveFails(q) ==
  /\ q \in BagToSet(inflight)
  /\ q.pc = "loaded"
  /\ Saves(q)
  /\ Throws(q)

NextFailing ==
  \/ Next
  \/ \E q \in Requests : BodyFails(q)
  \/ \E q \in Requests : SaveFails(q)

SpecFailing == Init /\ [][NextFailing]_vars

\* C20: every step in which receiving the body or saving the file fails
\* answers the request with 500 and success false, whatever the operation.
C20_FailuresAnswered ==
  [][(\E q \in Requests : BodyFails(q) \/ SaveFails(q))
     => /\ last'.status = 500
        /\ "success" \in last'.body.keys
        /\ last'.body.success = FALSE]_vars

\* ------------------------------------------------- one save for the join

\* C21: every step leaves the waitlist file as it was or appends one member
\* to it; the step that appends a member whose referredBy is a stored member's
\* code gives the first such member one more referral in the same step, no
\* other step changes any referrals, and a handler that holds the loaded file
\* holds it as it is stored.
C21_MemberAndCreditTogether ==
  [][LET after == disk'["waitlist"].rows
         n == Len(members)
     IN /\ Len(after) \in {n, n + 1}
        /\ Len(after) = n => after = members
        /\ Len(after) = n + 1 =>
             LET cited == after[n + 1].referredBy
                 first == FirstIndex({i \in 1..n : members[i].refCode = cited})
             IN \A i \in 1..n :
                  /\ after[i].referrals =
                       members[i].referrals + (IF i = first THEN 1 ELSE 0)
                  /\ i # first => after[i] = members[i]
        /\ \A q \in BagToSet(inflight') :
             (q.pc = "loaded" /\ q.route = "waitlist") => Rows(q.data) = after]_vars

\* C21 witness: the file holds two members, the second citing the code of the
\* first, whose one referral was saved by the step that appended the second.
C21_BothSaved ==
  /\ last.route = "waitlist"
  /\ "total" \in last.body.keys
  /\ Len(members) = 2
  /\ members[2].referredBy = members[1].refCode
  /\ members[1].referrals = 1
  /\ members[1].updatedAt >= 0

\* ------------------------------------------------------- referrer classes

\* C22: a step that records a pageview whose referrer is
\* https://www.reddit.com/r/x stores the event with the class "reddit".
C22_RedditIsReddit ==
  [][(last'.route = "pageview" /\ last'.status = 200
        /\ last'.args.referrer = RefReddit)
     => LET after == disk'["analytics"].rows
        IN after[Len(after)].ref = "reddit"]_vars

\* ------------------------------------------------------ what pruning keeps

\* C23: a step that records a pageview on a file of fewer than 10000 events
\* keeps every stored event where it was; one that records on a file of 10000
\* keeps the last 9000, in their order, as the first 9000; and either appends
\* the new event, of the clock's reading and the request's page, referrer
\* class and device class, as the last.
C23_PruneKeepsNewest ==
  [][(last'.route = "pageview" /\ last'.status = 200)
     => LET after == disk'["analytics"].rows
            n == Len(pageviews)
        IN /\ IF n < PruneAt
              THEN /\ Len(after) = n + 1
                   /\ \A k \in 1..n : after[k] = pageviews[k]
              ELSE /\ Len(after) = PruneKeep + 1
                   /\ \A k \in 1..PruneKeep :
                        after[k] = pageviews[n - PruneKeep + k]
           /\ after[Len(after)] =
                [ts |-> now', page |-> last'.args.page, ref |-> last'.args.ref,
                 device |-> last'.args.device]]_vars

\* C23 witness: after a recording on a file of 10000 events the file holds
\* 9001, the event that was the 1001st first and the 10000th next to last.
C23_NewestNineThousandKept ==
  /\ last.route = "pageview"
  /\ last.status = 200
  /\ Len(pageviews) = PruneKeep + 1
  /\ pageviews[1] = OldViewAt(PruneAt - PruneKeep + 1)
  /\ pageviews[PruneKeep] = OldViewAt(PruneAt)

\* ------------------------------------------------------ the sum of credits

\* The members whose referredBy was the code of a member stored before them:
\* no member is removed or moved and no code changes, so these are the members
\* whose code matched when they joined.
Matched(rows) ==
  {j \in 1..Len(rows) : \E i \in 1..(j - 1) : rows[i].refCode = rows[j].referredBy}

\* C24: the referrals of all the members sum to the number of members whose
\* referredBy was the code of a member stored before them, which is no more
\* than the number of members with a referredBy and, when there is a member,
\* no more than the number of members less one; the admin listing reports
\* this sum as totalReferrals.
C24_CreditsCountMatches ==
  /\ SumReferrals(members) = Cardinality(Matched(members))
  /\ SumReferrals(members) <=
       Cardinality({j \in 1..Len(members) : members[j].referredBy # Null})
  /\ members # <<>> => SumReferrals(members) <= Len(members) - 1
  /\ (last.route = "adminWaitlist" /\ last.status = 200)
       => last.body.totalReferrals = Cardinality(Matched(members))

\* C24 witness: the admin listing reports one referral for two members who
\* both cited a code, the first of them a code that nobody held.
C24_OneMatchOfTwoCitations ==
  /\ last.route = "adminWaitlist"
  /\ last.status = 200
  /\ last.body.totalReferrals = 1
  /\ Len(members) = 2
  /\ members[1].referredBy # Null
  /\ members[2].referredBy = members[1].refCode

\* ------------------------------------------- registering again, any status

\* The statuses an admin has given a registration: the three the code names
\* and one it does not (line 239 takes any string).
Statuses == {Pending, Verified, Airdropped, <<"h","e","l","d">>}

\* The server with one registration, made by a register that gave an email and
\* a balance, and since patched to some status.
InitRegistered ==
  /\ \E s \in Statuses :
       disk = [f \in FileNames |->
                 [readable |-> TRUE,
                  rows |-> IF f = "migrations"
                           THEN <<[id |-> KnownId, ethAddress |-> EthA,
                                   solAddress |-> Sol1,
                                   email |-> toLowerCase(trim(EmailAMixed)),
                                   selfReportedBalance |-> <<"5">>,
                                   status |-> s, registeredAt |-> 0,
                                   ip |-> Loopback,
                                   updatedAt |-> IF s = Pending THEN -1 ELSE 0,
                                   verifiedBalance |-> Undefined,
                                   txHash |-> Undefined]>>
                           ELSE <<>>]]
  /\ inflight = EmptyBag
  /\ running = FALSE
  /\ last = NoResponse
  /\ now = 0
  /\ scope = "migrations"

NextRegistered ==
  \/ Arrive("migrate")
  \/ \E q \in Requests : MigrateBody(q)
  \/ \E q \in Requests : MigrateCommit(q)

SpecRegistered == InitRegistered /\ [][NextRegistered]_vars

\* C25: a step that answers a register whose addresses are valid, whose
\* Ethereum address is stored and whose Solana address is not the stored one
\* stores the new Solana address and the clock's reading as updatedAt,
\* whatever the registration's status and however often it was updated
\* before, and leaves its id, Ethereum address, email, balance, status and
\* registeredAt, every other registration and the number of registrations as
\* they were.
C25_UpdateAtAnyStatus ==
  [][(/\ last'.route = "migrate"
      /\ isValidEth(trim(last'.args.raw.ethAddress))
      /\ isValidSol(trim(last'.args.raw.solAddress))
      /\ StoredUnder(registrations, last'.args.raw.ethAddress) # 0
      /\ registrations[StoredUnder(registrations, last'.args.raw.ethAddress)].solAddress
           # trim(last'.args.raw.solAddress))
     => LET i == StoredUnder(registrations, last'.args.raw.ethAddress)
            old == registrations[i]
            after == disk'["migrations"].rows
        IN /\ last'.status = 200
           /\ Len(after) = Len(registrations)
           /\ after[i].solAddress = trim(last'.args.raw.solAddress)
           /\ after[i].updatedAt = now'
           /\ after[i].id = old.id
           /\ after[i].ethAddress = old.ethAddress
           /\ after[i].email = old.email
           /\ after[i].selfReportedBalance = old.selfReportedBalance
           /\ after[i].status = old.status
           /\ after[i].registeredAt = old.registeredAt
           /\ \A j \in 1..Len(after) : j # i => after[j] = registrations[j]]_vars

\* C25 witness: an airdropped registration made with the first Solana address
\* was just updated back to it, having been updated to the second in between.
C25_AirdroppedUpdatedTwice ==
  /\ last.route = "migrate"
  /\ last.body.message = "Your Solana address has been updated."
  /\ last.args.solAddress = Sol1
  /\ Len(registrations) >= 1
  /\ registrations[1].status = Airdropped
  /\ registrations[1].solAddress = Sol1
  /\ registrations[1].email = toLowerCase(trim(EmailAMixed))
  /\ registrations[1].registeredAt = 0

\* ------------------------------------------------------ reads save nothing

ReadRoutes ==
  {"position", "stats", "adminSubscribers", "adminMigrations", "adminWaitlist",
   "adminAnalytics", "health"}

\* C26: a step that answers the position lookup, stats, an admin listing, the
\* analytics query or the health probe, with whatever status, leaves every
\* file as it was.
C26_ReadsSaveNothing ==
  [][last'.route \in ReadRoutes => disk' = disk]_vars

\* C26 witness: a position lookup was just answered 404 while the waitlist
\* holds members, one of them with a referral.
C26_LookupMissedAmongMembers ==
  /\ last.route = "position"
  /\ last.status = 404
  /\ Len(members) >= 2
  /\ \E i \in 1..Len(members) : members[i].referrals > 0

====
